---- MODULE Spec2Model ----
(***************************************************************************)
(* Model of ddkn/chromatographer: the Chromatographer class                *)
(* (src/chromatographer.py) with its collect_data loop, valve operations   *)
(* and task lifecycle, the command-line program that drives it, and the    *)
(* window (src/chromatographer-qt.py) with its worker thread.              *)
(*                                                                         *)
(* Spec and FairSpec: a constructed object, collect_data() and stop().     *)
(* SpecCli: the command-line program.  SpecBench: the valve operations on  *)
(* every port state.  SpecGui: the window, its worker and its thread.      *)
(*                                                                         *)
(* Times are whole seconds.  The analog value of a reading is not          *)
(* modelled (no statement below depends on it); a data_ready event         *)
(* carries the elapsed time only.                                          *)
(***************************************************************************)
EXTENDS Integers, Sequences, FiniteSets, TLC

\* ------------------------------------------------------------------ bounds
MaxCycleTime == 2
MaxWindow == 3
MaxCycles == 2
MaxRuns == 2

\* ------------------------------------------------- constants of the source
VALVE_ALL_OFF == 0
VALVE_1 == 2
VALVE_2 == 4
VALVE_3 == 8
VALVE_4 == 16
VALVE_5 == 32
VALVE_6 == 64
VALVE_7 == 128
TICK == 1
N_PRIME_STEPS == 7

VARIABLES
  pc,                   \* position of the thread of control inside collect_data
  stop_requested,       \* Chromatographer.stop_requested
  cycle_time,           \* self.cycle_time
  cycle_time_remaining, \* self.cycle_time_remaining
  sample_t,             \* self.sample_t
  sample_dt,            \* self.sample_dt
  valves,               \* the digital output port (lines 0..7), as read back
  task_analog,          \* "none" | "created" | "started" | "closed"
  task_digital,         \* "none" | "created" | "started" | "closed"
  step,                 \* index of the next/current statement pair of prime_valves
  ts,                   \* the array arange(0, sample_t, sample_dt) of the for loop
  k,                    \* number of elements of ts the for loop has taken
  trace,                \* history: calls made by the current collect_data run
  stopPc,               \* history: pc at which stop() first set the flag ("none")
  stopLen,              \* history: Len(trace) at that moment
  runs,                 \* history: number of collect_data calls on this instance
  cycles,               \* history: completed cycles of the current run
  phases,               \* history: sampling loops entered in the current run
  phaseStart,           \* history: Len(trace) when the current loop was entered
  mpc,                  \* position of the command-line program ("lib": none)
  args,                 \* the parsed command line
  valve,                \* the local `valve` of __main__ (-1: unbound)
  ctor,                 \* outcome of Chromatographer.__init__
  closeCalls,           \* history: number of close_tasks() calls
  endCause,             \* history: why the program ended
  reg0,                 \* bench: the port before the first valve operation
  todo,                 \* bench: the valve operations still to be applied
  done,                 \* bench: the valve operations applied so far
  gpc,                  \* GUI thread: "ready" | "stopping" | "aborted" ("none": no GUI)
  threadRunning,        \* self.thread.isRunning()
  is_open,              \* self.valve[v]['is_open'] for v in {1, 7}
  workers,              \* history: one record per worker constructed
  cur,                  \* index in workers of self.worker
  xdata,                \* self.xdata (self.ydata has the same length)
  data_id,              \* self.data_id (-1: not assigned yet)
  saves,                \* the output file after its last header: one record per save_data call
  seen,                 \* index in trace of the last signal the GUI handled
  starts,               \* history: number of start attempts
  manualInRun,          \* history: a manual valve write met a running collect_data
  killedPc              \* history: pc of the worker when its thread was terminated

objVars == <<stop_requested, cycle_time, cycle_time_remaining, sample_t, sample_dt>>
taskVars == <<task_analog, task_digital>>
loopVars == <<step, ts, k>>
histVars == <<trace, stopPc, stopLen, runs, cycles, phases, phaseStart>>
cliVars == <<mpc, args, valve, ctor, closeCalls, endCause>>
benchVars == <<reg0, todo, done>>
guiVars == <<gpc, threadRunning, is_open, workers, cur, xdata, data_id, saves,
             seen, starts, manualInRun, killedPc>>
extVars == <<benchVars, guiVars>>
vars == <<pc, objVars, valves, taskVars, loopVars, histVars, cliVars, extVars>>

\* -------------------------------------------------------- pure operators

RECURSIVE BitOr(_, _)
\* Python's x | y on non-negative integers.
BitOr(x, y) ==
  IF x = 0 THEN y
  ELSE IF y = 0 THEN x
  ELSE 2 * BitOr(x \div 2, y \div 2) + (IF x % 2 = 1 \/ y % 2 = 1 THEN 1 ELSE 0)

RECURSIVE BitAnd(_, _)
\* Python's x & y on non-negative integers.
BitAnd(x, y) ==
  IF x = 0 \/ y = 0 THEN 0
  ELSE 2 * BitAnd(x \div 2, y \div 2) + (IF x % 2 = 1 /\ y % 2 = 1 THEN 1 ELSE 0)

\* Python's (~v & 0xff) for v in 0..255.
Invert8(v) == 255 - v

\* ceil(a / b) for b # 0, as numpy computes the length of arange.
CeilDiv(a, b) ==
  LET n == IF b < 0 THEN 0 - a ELSE a
      d == IF b < 0 THEN 0 - b ELSE b
  IN  IF n >= 0 THEN (n + d - 1) \div d ELSE 0 - ((0 - n) \div d)

ArangeLen_floor(stop, delta) ==
  IF CeilDiv(stop, delta) < 0 THEN 0 ELSE stop \div delta

\* len(arange(0, stop, delta)), delta # 0: ceil(stop/delta), never below 0.
ArangeLen(stop, delta) ==
  IF CeilDiv(stop, delta) < 0 THEN 0 ELSE CeilDiv(stop, delta)

\* arange(0, stop, delta): the values 0, delta, 2*delta, ...
Arange(stop, delta) == [i \in 1..ArangeLen(stop, delta) |-> (i - 1) * delta]

\* The mask of the i-th set_valve call of prime_valves.
PrimeMask(i) ==
  CASE i = 1 -> VALVE_ALL_OFF
    [] i = 2 -> VALVE_4
    [] i = 3 -> BitOr(VALVE_4, VALVE_6)
    [] i = 4 -> VALVE_4
    [] i = 5 -> BitOr(VALVE_2, VALVE_4)
    [] i = 6 -> VALVE_4
    [] i = 7 -> BitOr(VALVE_3, VALVE_5)

\* The argument of the i-th time.sleep call of prime_valves.
PrimeHold(i) == IF i % 2 = 1 THEN 5 ELSE 2

\* One entry of the history: operation, argument, phase of collect_data.
Ev(op, arg, ph) == <<op, arg, ph>>


SetValve_or(m, ph) ==
  /\ valves' = BitOr(valves, m)
  /\ trace' = Append(trace, Ev("set", m, ph))

\* Chromatographer.set_valve: write the mask to the port, replacing all bits.
SetValve(m, ph) ==
  /\ valves' = m
  /\ trace' = Append(trace, Ev("set", m, ph))

OpenValve_overwrite(m) == valves' = m

\* Chromatographer.open_valve: read the port, OR the mask in, write back.
OpenValve(m) == valves' = BitOr(valves, m)

CloseValve_uninverted(m) == valves' = BitAnd(valves, m)

\* Chromatographer.close_valve: read the port, AND with (~mask & 0xff), write.
CloseValve(m) == valves' = BitAnd(valves, Invert8(m))

\* ------------------------------------------------------- initial states

InitValves == {VALVE_ALL_OFF, BitOr(VALVE_1, VALVE_7)}

NoArgs == [cycle_time |-> 0, sample_window |-> 0, sample_delta |-> 0,
           open |-> FALSE, shut |-> FALSE, valve |-> 0]

HistInit ==
  /\ trace = <<>>
  /\ stopPc = "none"
  /\ stopLen = 0
  /\ runs = 0
  /\ cycles = 0
  /\ phases = 0
  /\ phaseStart = 0

\* No bench program is loaded.
BenchIdle ==
  /\ reg0 = 0
  /\ todo = <<>>
  /\ done = <<>>

\* No window exists.
GuiIdle ==
  /\ gpc = "none"
  /\ threadRunning = FALSE
  /\ is_open = [v \in {1, 7} |-> FALSE]
  /\ workers = <<>>
  /\ cur = 0
  /\ xdata = <<>>
  /\ data_id = -1
  /\ saves = <<>>
  /\ seen = 0
  /\ starts = 0
  /\ manualInRun = FALSE
  /\ killedPc = "none"

ExtIdle == BenchIdle /\ GuiIdle

\* A successfully constructed Chromatographer with a valid configuration
\* (cycle_time > 0, 0 < sample_delta < sample_window) used as a library
\* object: collect_data() and stop() are called on it.
Init ==
  /\ pc = "idle"
  /\ stop_requested = FALSE
  /\ cycle_time \in 1..MaxCycleTime
  /\ cycle_time_remaining = cycle_time
  /\ sample_t \in 2..MaxWindow
  /\ sample_dt \in 1..(sample_t - 1)
  /\ valves \in InitValves
  /\ task_analog = "started"
  /\ task_digital = "started"
  /\ step = 1
  /\ ts = <<>>
  /\ k = 0
  /\ HistInit
  /\ mpc = "lib"
  /\ args = NoArgs
  /\ valve = -1
  /\ ctor = "ok"
  /\ closeCalls = 0
  /\ endCause = "none"
  /\ ExtIdle

\* --------------------------------------------------------- collect_data

\* A call of collect_data() on the instance.
CallCollect ==
  /\ pc \in {"idle", "returned"}
  /\ pc' = "reset0"
  /\ step' = 1
  /\ ts' = <<>>
  /\ k' = 0
  /\ trace' = <<>>
  /\ stopPc' = IF stop_requested THEN "before" ELSE "none"
  /\ stopLen' = 0
  /\ runs' = runs + 1
  /\ cycles' = 0
  /\ phases' = 0
  /\ phaseStart' = 0
  /\ UNCHANGED <<objVars, valves, taskVars>>

Start ==
  /\ mpc = "lib"
  /\ runs < MaxRuns
  /\ CallCollect
  /\ UNCHANGED <<cliVars, extVars>>

\* collect_data without the call of line 106.
EntryReset_skipped ==
  /\ pc = "reset0"
  /\ pc' = "loop"
  /\ UNCHANGED <<objVars, valves, taskVars, loopVars, histVars, cliVars,
                 extVars>>

\* line 106: self.reset_to_cycle_state()
EntryReset ==
  /\ pc = "reset0"
  /\ SetValve(VALVE_4, "entry")
  /\ pc' = "loop"
  /\ UNCHANGED <<objVars, taskVars, loopVars, stopPc, stopLen, runs, cycles,
                 phases, phaseStart, cliVars, extVars>>

\* lines 107-109 and 130 without the assignment of line 130.
LoopCheck_keepflag ==
  /\ pc = "loop"
  /\ stop_requested \/ cycles < MaxCycles
  /\ pc' = IF stop_requested THEN "returned" ELSE "tick_sleep"
  /\ UNCHANGED <<objVars, valves, taskVars, loopVars, histVars, cliVars,
                 extVars>>

\* lines 107-109 and, on break, line 130.
LoopCheck ==
  /\ pc = "loop"
  /\ stop_requested \/ cycles < MaxCycles
  /\ IF stop_requested
       THEN /\ pc' = "returned"
            /\ stop_requested' = FALSE
       ELSE /\ pc' = "tick_sleep"
            /\ UNCHANGED stop_requested
  /\ UNCHANGED <<cycle_time, cycle_time_remaining, sample_t, sample_dt, valves,
                 taskVars, loopVars, histVars, cliVars, extVars>>

\* line 111: time.sleep(1)
TickSleep ==
  /\ pc = "tick_sleep"
  /\ trace' = Append(trace, Ev("sleep", TICK, "wait"))
  /\ pc' = "tick"
  /\ UNCHANGED <<objVars, valves, taskVars, loopVars, stopPc, stopLen, runs,
                 cycles, phases, phaseStart, cliVars, extVars>>

Tick_nonneg ==
  /\ pc = "tick"
  /\ cycle_time_remaining' = cycle_time_remaining - TICK
  /\ trace' = Append(trace, Ev("time_remaining", cycle_time_remaining', "wait"))
  /\ IF cycle_time_remaining' >= 0
       THEN pc' = "loop" /\ UNCHANGED step
       ELSE pc' = "prime_set" /\ step' = 1
  /\ UNCHANGED <<stop_requested, cycle_time, sample_t, sample_dt, valves,
                 taskVars, ts, k, stopPc, stopLen, runs, cycles, phases,
                 phaseStart, cliVars, extVars>>

\* lines 112-115 (and the call of prime_valves at 117 when the wait is over).
Tick ==
  /\ pc = "tick"
  /\ cycle_time_remaining' = cycle_time_remaining - TICK
  /\ trace' = Append(trace, Ev("time_remaining", cycle_time_remaining', "wait"))
  /\ IF cycle_time_remaining' > 0
       THEN pc' = "loop" /\ UNCHANGED step
       ELSE pc' = "prime_set" /\ step' = 1
  /\ UNCHANGED <<stop_requested, cycle_time, sample_t, sample_dt, valves,
                 taskVars, ts, k, stopPc, stopLen, runs, cycles, phases,
                 phaseStart, cliVars, extVars>>

PrimeSet_cancellable ==
  /\ pc = "prime_set"
  /\ IF stop_requested
       THEN UNCHANGED <<valves, trace>>
       ELSE SetValve(PrimeMask(step), "prime")
  /\ pc' = "prime_hold"
  /\ UNCHANGED <<objVars, taskVars, loopVars, stopPc, stopLen, runs, cycles,
                 phases, phaseStart, cliVars, extVars>>

\* prime_valves, lines 136/138/140/142/144/146/148: self.set_valve(mask)
PrimeSet ==
  /\ pc = "prime_set"
  /\ SetValve(PrimeMask(step), "prime")
  /\ pc' = "prime_hold"
  /\ UNCHANGED <<objVars, taskVars, loopVars, stopPc, stopLen, runs, cycles,
                 phases, phaseStart, cliVars, extVars>>

\* prime_valves, lines 137/139/141/143/145/147/149: time.sleep(hold)
PrimeWait ==
  /\ pc = "prime_hold"
  /\ trace' = Append(trace, Ev("sleep", PrimeHold(step), "prime"))
  /\ IF step < N_PRIME_STEPS
       THEN pc' = "prime_set" /\ step' = step + 1
       ELSE pc' = "for_init" /\ UNCHANGED step
  /\ UNCHANGED <<objVars, valves, taskVars, ts, k, stopPc, stopLen, runs,
                 cycles, phases, phaseStart, cliVars, extVars>>

\* line 118: arange(0, self.sample_t, self.sample_dt) is evaluated
\* (a zero step raises).
ForInit ==
  /\ pc = "for_init"
  /\ IF sample_dt = 0
       THEN /\ pc' = "raised"
            /\ UNCHANGED <<ts, k, phases, phaseStart>>
       ELSE /\ pc' = "for_next"
            /\ ts' = Arange(sample_t, sample_dt)
            /\ k' = 0
            /\ phases' = phases + 1
            /\ phaseStart' = Len(trace)
  /\ UNCHANGED <<objVars, valves, taskVars, step, trace, stopPc, stopLen, runs,
                 cycles, cliVars, extVars>>

\* line 118: the for statement takes the next t, or ends the loop.
ForNext ==
  /\ pc = "for_next"
  /\ IF k < Len(ts)
       THEN pc' = "stop_check" /\ k' = k + 1
       ELSE pc' = "reset" /\ UNCHANGED k
  /\ UNCHANGED <<objVars, valves, taskVars, step, ts, histVars, cliVars, extVars>>

StopCheck_ignored ==
  /\ pc = "stop_check"
  /\ pc' = "read"
  /\ UNCHANGED <<objVars, valves, taskVars, loopVars, histVars, cliVars, extVars>>

\* lines 119-120: if self.stop_requested == True: break
StopCheck ==
  /\ pc = "stop_check"
  /\ pc' = IF stop_requested THEN "reset" ELSE "read"
  /\ UNCHANGED <<objVars, valves, taskVars, loopVars, histVars, cliVars, extVars>>

\* line 122: self.task_analog.read(number_of_samples_per_channel=10)
Read ==
  /\ pc = "read"
  /\ trace' = Append(trace, Ev("read", 10, "sample"))
  /\ pc' = "send"
  /\ UNCHANGED <<objVars, valves, taskVars, loopVars, stopPc, stopLen, runs,
                 cycles, phases, phaseStart, cliVars, extVars>>

\* line 123: self.send_data_ready(t, mean(signals))
SendData ==
  /\ pc = "send"
  /\ trace' = Append(trace, Ev("data_ready", ts[k], "sample"))
  /\ pc' = "sample_sleep"
  /\ UNCHANGED <<objVars, valves, taskVars, loopVars, stopPc, stopLen, runs,
                 cycles, phases, phaseStart, cliVars, extVars>>

\* line 124: time.sleep(self.sample_dt) (a negative length raises).
SampleSleep ==
  /\ pc = "sample_sleep"
  /\ IF sample_dt < 0
       THEN pc' = "raised" /\ UNCHANGED trace
       ELSE /\ pc' = "for_next"
            /\ trace' = Append(trace, Ev("sleep", sample_dt, "sample"))
  /\ UNCHANGED <<objVars, valves, taskVars, loopVars, stopPc, stopLen, runs,
                 cycles, phases, phaseStart, cliVars, extVars>>

\* line 125: self.reset_to_cycle_state()
Reset ==
  /\ pc = "reset"
  /\ SetValve(VALVE_4, "reset")
  /\ pc' = "finish"
  /\ UNCHANGED <<objVars, taskVars, loopVars, stopPc, stopLen, runs, cycles,
                 phases, phaseStart, cliVars, extVars>>

Finish_twice ==
  /\ pc = "finish"
  /\ trace' = Append(Append(trace, Ev("finished", 0, "reset")),
                     Ev("finished", 0, "reset"))
  /\ pc' = "rearm"
  /\ UNCHANGED <<objVars, valves, taskVars, loopVars, stopPc, stopLen, runs,
                 cycles, phases, phaseStart, cliVars, extVars>>

\* line 126: self.send_finished()
Finish ==
  /\ pc = "finish"
  /\ trace' = Append(trace, Ev("finished", 0, "reset"))
  /\ pc' = "rearm"
  /\ UNCHANGED <<objVars, valves, taskVars, loopVars, stopPc, stopLen, runs,
                 cycles, phases, phaseStart, cliVars, extVars>>

\* lines 127-128: the countdown is reset and reported.
Rearm ==
  /\ pc = "rearm"
  /\ cycle_time_remaining' = cycle_time
  /\ trace' = Append(trace, Ev("time_remaining", cycle_time, "reset"))
  /\ cycles' = cycles + 1
  /\ pc' = "loop"
  /\ UNCHANGED <<stop_requested, cycle_time, sample_t, sample_dt, valves,
                 taskVars, loopVars, stopPc, stopLen, runs, phases, phaseStart,
                 cliVars, extVars>>

\* Chromatographer.stop, lines 196-198, called from another thread at any time.
Stop ==
  /\ mpc = "lib"
  /\ stop_requested' = TRUE
  /\ IF stop_requested
       THEN UNCHANGED <<stopPc, stopLen>>
       ELSE stopPc' = pc /\ stopLen' = Len(trace)
  /\ UNCHANGED <<pc, cycle_time, cycle_time_remaining, sample_t, sample_dt,
                 valves, taskVars, loopVars, trace, runs, cycles, phases,
                 phaseStart, cliVars, extVars>>

Run ==
  \/ EntryReset
  \/ LoopCheck
  \/ TickSleep
  \/ Tick
  \/ PrimeSet
  \/ PrimeWait
  \/ ForInit
  \/ ForNext
  \/ StopCheck
  \/ Read
  \/ SendData
  \/ SampleSleep
  \/ Reset
  \/ Finish
  \/ Rearm

Next == Start \/ Stop \/ Run

Spec == Init /\ [][Next]_vars

\* The worker thread keeps running: every sleep ends and every device call
\* returns, so a step of collect_data that is possible is eventually taken.
FairSpec == Spec /\ WF_vars(Run)


\* ------------------------------------------------ reading the history

IsOp(e, op, ph) == e[1] = op /\ e[3] = ph

\* Number of op/ph entries of the history made after stop() set the flag.
AfterStop(op, ph) ==
  Cardinality({i \in (stopLen + 1)..Len(trace) : IsOp(trace[i], op, ph)})

AfterStopInPhase(ph) ==
  Cardinality({i \in (stopLen + 1)..Len(trace) : trace[i][3] = ph})

IsDataReady(e) == e[1] = "data_ready"

\* Elapsed times of the data_ready events of the sampling loop entered last.
PhaseSamples ==
  LET tail == SubSeq(trace, phaseStart + 1, Len(trace))
      dr == SelectSeq(tail, IsDataReady)
  IN  [i \in 1..Len(dr) |-> dr[i][2]]

NFinished == Cardinality({i \in DOMAIN trace : trace[i][1] = "finished"})

WaitPcs == {"loop", "tick_sleep", "tick"}
PrimePcs == {"prime_set", "prime_hold"}
SamplingPcs == {"for_next", "stop_check", "read", "send", "sample_sleep"}
ResetPcs == {"reset", "finish", "rearm"}

ResetSet == Ev("set", 16, "reset")
ResetTick == Ev("time_remaining", cycle_time, "reset")

\* ------------------------------------------------------------------ C1
\* C1: a stop() requested while collect_data is in its waiting phase (at its
\* check, in the sleep of a tick, or before the decrement of a tick) is
\* followed by at most one more one-second sleep, and after it neither
\* prime_valves nor the sampling loop nor the reset is entered in that run.
C1_StopWhileWaitingStopsAtOnce ==
  stopPc \in WaitPcs =>
    /\ pc \notin PrimePcs \cup {"for_init"} \cup SamplingPcs \cup ResetPcs
    /\ AfterStopInPhase("prime") = 0
    /\ AfterStopInPhase("sample") = 0
    /\ AfterStop("sleep", "wait") <= 1

\* ------------------------------------------------------------------ C2
C2_Rest ==
  /\ pc \notin {"tick_sleep", "tick", "for_init"} \cup PrimePcs
  /\ AfterStopInPhase("wait") = 0
  /\ AfterStopInPhase("prime") = 0
  /\ AfterStop("set", "reset") <= 1
  /\ AfterStop("finished", "reset") <= 1
  /\ pc \in {"rearm", "loop", "returned"} =>
       /\ AfterStop("set", "reset") = 1
       /\ AfterStop("finished", "reset") = 1

\* C2 as stated: a stop() requested inside the sampling loop makes the loop
\* end before the window is exhausted (fewer samples than the window holds),
\* then one reset, one finished, and Stopped with no further tick, priming
\* or sampling.
C2_StopInSamplingEndsEarly ==
  stopPc \in SamplingPcs =>
    /\ pc \in ResetPcs \cup {"loop", "returned"} => Len(PhaseSamples) < Len(ts)
    /\ C2_Rest

\* What has happened since a stop() requested inside the sampling loop.
C2_AtMostTheIterationInProgress ==
  stopPc \in SamplingPcs =>
    /\ AfterStop("read", "sample") <= 1
    /\ AfterStop("data_ready", "sample") <= 1
    /\ AfterStop("sleep", "sample") <= 1
    /\ stopPc \in {"for_next", "stop_check"} => AfterStopInPhase("sample") = 0
    /\ C2_Rest

\* C2 as amended: a stop() requested inside the sampling loop lets at most
\* the iteration in progress complete (at most one more read and one more
\* data_ready, none when the request precedes that iteration's check), so
\* the loop ends at its next check or, when the request comes during the
\* last iteration, with the window; then one reset, one finished, and
\* collect_data returns with no further tick, priming or sampling.
C2_StopInSamplingEndsAtNextCheck ==
  /\ []C2_AtMostTheIterationInProgress
  /\ (stopPc \in SamplingPcs) ~> (stopPc \in SamplingPcs /\ pc = "returned")

C2_Witness ==
  /\ stopPc = "sample_sleep"
  /\ pc = "returned"
  /\ Len(PhaseSamples) \in 1..(Len(ts) - 1)
  /\ AfterStop("finished", "reset") = 1

\* ------------------------------------------------------------------ C3
\* The finished events of the history, counted and placed.
C3_FinishedInOrder ==
  /\ NFinished = IF pc \in SamplingPcs \cup {"reset", "finish"}
                   THEN phases - 1 ELSE phases
  /\ \A i \in DOMAIN trace :
       trace[i][1] = "finished" =>
         /\ i > 1 /\ trace[i - 1] = ResetSet
         /\ i < Len(trace) => trace[i + 1] = ResetTick
         /\ \A j \in (i + 1)..Len(trace) :
              IsDataReady(trace[j]) =>
                \E m \in (i + 1)..(j - 1) : trace[m][3] = "prime"
  /\ \A i \in DOMAIN trace :
       trace[i] = ResetTick => i > 1 /\ trace[i - 1][1] = "finished"

\* C3: every sampling loop that is entered (and ends by exhausting the
\* window or by the stop check) is followed by its finished event, exactly
\* one; a finished event comes after every data_ready of its loop, directly
\* after the reset write and directly before time_remaining(cycle_time);
\* there is no finished event without a sampling loop entered before it.
C3_FinishedOncePerSamplingPhase ==
  /\ []C3_FinishedInOrder
  /\ (pc \in SamplingPcs) ~> (pc = "rearm")

C3_Witness ==
  /\ pc = "returned"
  /\ phases = 2
  /\ NFinished = 2
  /\ stopPc \in SamplingPcs
  /\ Len(PhaseSamples) >= 1


\* ------------------------------------------------------------------ C4
\* What an observer of the port and of the three callbacks sees: the valve
\* writes, the prime holds, and the time_remaining/data_ready/finished calls.
IsObserved(e) ==
  \/ e[1] \in {"set", "time_remaining", "data_ready", "finished"}
  \/ e[1] = "sleep" /\ e[3] = "prime"

Observed ==
  LET o == SelectSeq(trace, IsObserved)
  IN  [i \in 1..Len(o) |-> <<o[i][1], o[i][2]>>]

C4_Entry == << <<"set", 16>> >>

ExpectedPrime ==
  << <<"set", 0>>, <<"sleep", 5>>, <<"set", 16>>, <<"sleep", 2>>,
     <<"set", 80>>, <<"sleep", 5>>, <<"set", 16>>, <<"sleep", 2>>,
     <<"set", 20>>, <<"sleep", 5>>, <<"set", 16>>, <<"sleep", 2>>,
     <<"set", 40>>, <<"sleep", 5>> >>

C4_Cycle ==
  << <<"time_remaining", 1>>, <<"time_remaining", 0>> >>
  \o ExpectedPrime
  \o << <<"data_ready", 0>>, <<"data_ready", 1>>, <<"data_ready", 2>>,
        <<"set", 16>>, <<"finished", 0>>, <<"time_remaining", 2>> >>

RECURSIVE Repeat(_, _)
Repeat(s, n) == IF n = 0 THEN <<>> ELSE s \o Repeat(s, n - 1)

RECURSIVE SumHolds(_)
SumHolds(s) ==
  IF s = <<>> THEN 0
  ELSE (IF Head(s)[1] = "sleep" THEN Head(s)[2] ELSE 0) + SumHolds(Tail(s))

IsPrefix(s, t) == Len(s) <= Len(t) /\ s = SubSeq(t, 1, Len(s))

IsTimeRemaining(e) == e[1] = "time_remaining"

TimeRemaining == SelectSeq(trace, IsTimeRemaining)

\* C6: in every run the first time_remaining value is cycle_time - 1; every
\* tick value is exactly 1 less than the value emitted before it; priming
\* starts directly after the first tick value <= 0 and only then, and the
\* next time_remaining after that value is the reset value cycle_time.
C6_CountdownFromCycleTime ==
  /\ Len(TimeRemaining) >= 1 =>
       TimeRemaining[1] = Ev("time_remaining", cycle_time - 1, "wait")
  /\ \A i \in 1..(Len(TimeRemaining) - 1) :
       IF TimeRemaining[i][2] <= 0 /\ TimeRemaining[i][3] = "wait"
         THEN TimeRemaining[i + 1] = ResetTick
         ELSE TimeRemaining[i + 1] =
                Ev("time_remaining", TimeRemaining[i][2] - 1, "wait")
  /\ \A i \in DOMAIN trace :
       IsOp(trace[i], "time_remaining", "wait") =>
         IF trace[i][2] <= 0
           THEN IF i = Len(trace) THEN pc = "prime_set"
                ELSE trace[i + 1] = Ev("set", 0, "prime")
           ELSE IF i = Len(trace) THEN pc \in WaitPcs \cup {"returned"}
                ELSE trace[i + 1][3] = "wait"

\* ------------------------------------------------------------------ C7
IsPrime(e) == e[3] = "prime"

PrimeEvents ==
  LET p == SelectSeq(trace, IsPrime)
  IN  [i \in 1..Len(p) |-> <<p[i][1], p[i][2]>>]

PrimeCount(n) == Cardinality({i \in 1..n : IsPrime(trace[i])})

\* C7: the writes and holds made by prime_valves are, each time it is
\* entered, ALL_OFF/5, V4/2, V4|V6/5, V4/2, V2|V4/5, V4/2, V3|V5/5 in that
\* order with nothing else in between, whether or not stop() is requested
\* meanwhile; the port holds the step's mask during its hold; the sampling
\* loop is entered only after the seventh hold.
C7_PrimeSequenceIsFixed ==
  /\ \A i \in 1..Len(PrimeEvents) :
       PrimeEvents[i] = ExpectedPrime[((i - 1) % Len(ExpectedPrime)) + 1]
  /\ \A i \in 1..(Len(trace) - 1) :
       (IsPrime(trace[i]) /\ ~IsPrime(trace[i + 1])) =>
         PrimeCount(i) % Len(ExpectedPrime) = 0
  /\ pc \notin PrimePcs => Len(PrimeEvents) % Len(ExpectedPrime) = 0
  /\ pc \in PrimePcs =>
       Len(PrimeEvents) = Len(ExpectedPrime) * phases + 2 * (step - 1)
                          + (IF pc = "prime_hold" THEN 1 ELSE 0)
  /\ pc = "prime_hold" => valves = ExpectedPrime[2 * step - 1][2]
  /\ pc \in SamplingPcs => Len(PrimeEvents) = Len(ExpectedPrime) * phases

C7_Witness ==
  /\ stopPc \in PrimePcs
  /\ stopLen > 3
  /\ pc = "returned"
  /\ Len(PrimeEvents) = Len(ExpectedPrime)


\* ------------------------------------------- the command-line program

ArgCycleTimes == 1..MaxCycleTime
ArgWindows == (-1)..MaxWindow
ArgDeltas == (-2)..MaxWindow
ArgValves == {0, 1, 3, 7}

\* The program after parse_args, before line 249: no Chromatographer
\* exists yet (its attributes hold 0 here and are not read), no task exists.
InitCli ==
  /\ pc = "idle"
  /\ stop_requested = FALSE
  /\ cycle_time = 0
  /\ cycle_time_remaining = 0
  /\ sample_t = 0
  /\ sample_dt = 0
  /\ valves \in InitValves
  /\ task_analog = "none"
  /\ task_digital = "none"
  /\ step = 1
  /\ ts = <<>>
  /\ k = 0
  /\ HistInit
  /\ mpc = "L249"
  /\ args \in [cycle_time : ArgCycleTimes, sample_window : ArgWindows,
               sample_delta : ArgDeltas, open : BOOLEAN, shut : BOOLEAN,
               valve : ArgValves]
  /\ valve = -1
  /\ ctor = "pending"
  /\ closeCalls = 0
  /\ endCause = "none"
  /\ ExtIdle

\* Chromatographer.__init__(daq_id, ct, t, dt), lines 61-84.  fault names the
\* task whose channel setup or start raises ("none": the device works).
Ctor(fault, ct, t, dt) ==
  IF fault = "analog"
    THEN /\ task_analog' = "created"
         /\ task_digital' = "none"
         /\ ctor' = "DaqError"
         /\ UNCHANGED <<cycle_time, cycle_time_remaining, sample_t, sample_dt>>
    ELSE IF fault = "digital"
    THEN /\ task_analog' = "started"
         /\ task_digital' = "created"
         /\ ctor' = "DaqError"
         /\ UNCHANGED <<cycle_time, cycle_time_remaining, sample_t, sample_dt>>
    ELSE /\ task_analog' = "started"
         /\ task_digital' = "started"
         /\ cycle_time' = ct
         /\ cycle_time_remaining' = ct
         /\ sample_t' = t
         /\ sample_dt' = dt
         /\ ctor' = IF dt >= t THEN "ValueError" ELSE "ok"

\* line 249: worker = Chromatographer(daq_device, cycle_time, sample_t, sample_dt);
\* an exception of the constructor is not caught and ends the program.
Construct ==
  /\ mpc = "L249"
  /\ \E fault \in {"none", "analog", "digital"} :
       Ctor(fault, args.cycle_time, args.sample_window, args.sample_delta)
  /\ mpc' = IF ctor' = "ok" THEN "L251" ELSE "died"
  /\ endCause' = IF ctor' = "ok" THEN endCause ELSE ctor'
  /\ UNCHANGED <<pc, stop_requested, valves, loopVars, histVars, args, valve,
                 closeCalls, extVars>>

\* lines 251-253: --open together with --shut: exit(1).
ConflictCheck ==
  /\ mpc = "L251"
  /\ IF args.open /\ args.shut
       THEN mpc' = "exited" /\ endCause' = "conflict"
       ELSE mpc' = "L255" /\ UNCHANGED endCause
  /\ UNCHANGED <<pc, objVars, valves, taskVars, loopVars, histVars, args,
                 valve, ctor, closeCalls, extVars>>

\* lines 255-261: the valve id selects the mask; an id other than 0, 1, 7
\* exits with status 1; id 0 leaves `valve` unbound.
ValveSelect ==
  /\ mpc = "L255"
  /\ IF args.valve = 1
       THEN valve' = VALVE_1 /\ mpc' = "L263" /\ UNCHANGED endCause
       ELSE IF args.valve = 7
       THEN valve' = VALVE_7 /\ mpc' = "L263" /\ UNCHANGED endCause
       ELSE IF args.valve # 0
       THEN mpc' = "exited" /\ endCause' = "bad_valve" /\ UNCHANGED valve
       ELSE mpc' = "L263" /\ UNCHANGED <<valve, endCause>>
  /\ UNCHANGED <<pc, objVars, valves, taskVars, loopVars, histVars, args,
                 ctor, closeCalls, extVars>>

\* lines 263-266: the manual operation.  An unbound `valve` raises NameError
\* and a failing port read/write raises DaqError; neither is caught.
ManualOp ==
  /\ mpc = "L263"
  /\ IF ~(args.open \/ args.shut)
       THEN mpc' = "L272" /\ UNCHANGED <<valves, endCause>>
       ELSE IF valve = -1
       THEN mpc' = "died" /\ endCause' = "NameError" /\ UNCHANGED valves
       ELSE \E fault \in BOOLEAN :
              IF fault
                THEN mpc' = "died" /\ endCause' = "manual_DaqError"
                     /\ UNCHANGED valves
                ELSE /\ mpc' = "L272"
                     /\ UNCHANGED endCause
                     /\ IF args.open THEN OpenValve(valve) ELSE CloseValve(valve)
  /\ UNCHANGED <<pc, objVars, taskVars, loopVars, histVars, args, valve, ctor,
                 closeCalls, extVars>>

\* lines 272-273: try: worker.collect_data()
MainCollect ==
  /\ mpc = "L272"
  /\ CallCollect
  /\ mpc' = "in_collect"
  /\ UNCHANGED <<args, valve, ctor, closeCalls, endCause, extVars>>

\* A read of the analog task (line 122) or a write of the digital task
\* (lines 106, 125 and the writes of prime_valves) raises DaqError.
DeviceFault ==
  /\ mpc = "in_collect"
  /\ pc \in {"reset0", "prime_set", "read", "reset"}
  /\ pc' = "raised"
  /\ UNCHANGED <<objVars, valves, taskVars, loopVars, histVars, cliVars, extVars>>

\* lines 274-275: except Exception as err: print(err) (or collect_data
\* returned).
MainAfterCollect ==
  /\ mpc = "in_collect"
  /\ pc \in {"raised", "returned"}
  /\ mpc' = "L276"
  /\ endCause' = IF pc = "raised" THEN "collect_error" ELSE "stopped"
  /\ UNCHANGED <<pc, objVars, valves, taskVars, loopVars, histVars, args,
                 valve, ctor, closeCalls, extVars>>

\* line 276 and close_tasks, lines 89-96.
CloseTasks ==
  /\ mpc = "L276"
  /\ task_digital' = "closed"
  /\ task_analog' = "closed"
  /\ closeCalls' = closeCalls + 1
  /\ mpc' = "exited"
  /\ UNCHANGED <<pc, objVars, valves, loopVars, histVars, args, valve, ctor,
                 endCause, extVars>>

Main ==
  \/ Construct
  \/ ConflictCheck
  \/ ValveSelect
  \/ ManualOp
  \/ MainCollect
  \/ MainAfterCollect
  \/ CloseTasks

NextCli == Main \/ Run \/ DeviceFault

SpecCli == InitCli /\ [][NextCli]_vars


\* ------------------------------------------------------------------ C8
\* C8: the constructor raises the configuration error exactly when
\* sample_delta >= sample_window or sample_delta <= 0 or sample_window <= 0
\* (device failures of the constructor aside).
C8_ConfigErrorIffInvalid ==
  ctor \in {"ok", "ValueError"} =>
    (ctor = "ValueError"
       <=> \/ args.sample_delta >= args.sample_window
           \/ args.sample_delta <= 0
           \/ args.sample_window <= 0)

\* ------------------------------------------------------------------ C9
\* C9: when the constructor has raised the configuration error, no analog
\* or digital task has been created or started.
C9_NoTaskOnConfigError ==
  ctor = "ValueError" => (task_analog = "none" /\ task_digital = "none")

\* ----------------------------------------------------------------- C10
\* C10: when the program has ended, after its tasks were opened, because of
\* a device failure inside collect_data, of --open given with --shut, or of
\* an invalid or missing valve id for a manual operation, close_tasks() has
\* run exactly once and the digital task is closed.
C10_ErrorExitClosesTasks ==
  (/\ mpc \in {"exited", "died"}
   /\ endCause \in {"collect_error", "conflict", "bad_valve", "NameError"})
    => (closeCalls = 1 /\ task_digital = "closed")


\* ----------------------------------------------------------------- C11
\* When collect_data has returned and stop() was not called since, the flag
\* is False; a later run that was entered with the flag False and in which
\* stop() was not called has not returned.
C11_FlagClearedOnReturn ==
  /\ (pc = "returned" /\ stopPc # "returned") => ~stop_requested
  /\ (runs >= 2 /\ stopPc = "none") => pc # "returned"

\* C11: whenever collect_data returns after a stop request, stop_requested
\* is False; a following collect_data call on the same instance, with no new
\* stop() request, does not stop on its own: it enters the waiting phase and
\* completes at least one full wait/prime/sample/reset cycle.
C11_RestartRunsAgain ==
  /\ []C11_FlagClearedOnReturn
  /\ (runs = 2 /\ pc = "reset0" /\ stopPc = "none")
       ~> (stopPc # "none" \/ (runs = 2 /\ cycles >= 1 /\ NFinished >= 1))

C11_Witness ==
  /\ runs = 2
  /\ stopPc = "none"
  /\ cycles >= 1
  /\ NFinished >= 1
  /\ pc \in WaitPcs


\* -------------------------------------------- the window (chromatographer-qt)

MaxStarts == 1

\* Values read from the spin boxes.  get_cycle_time (lines 277-279) returns
\* spinCycleTime.value() * MIN_TO_SEC; GuiCycleTimes holds that product, in
\* seconds.  Nothing relates the window to the interval.
GuiCycleTimes == {2}
SpinWindows == {2}
SpinDeltas == {1, 2}

\* ChromatographerQt after __init__ (lines 63-72): init_ui, init_plot and
\* init_worker have run; the first worker exists with its tasks started and
\* its thread not started.  The port is all off, as the device powers up.
InitGui ==
  /\ pc = "idle"
  /\ stop_requested = FALSE
  /\ cycle_time \in GuiCycleTimes
  /\ cycle_time_remaining = cycle_time
  /\ sample_t \in SpinWindows
  /\ sample_dt \in {d \in SpinDeltas : d < sample_t}
  /\ valves = VALVE_ALL_OFF
  /\ task_analog = "started"
  /\ task_digital = "started"
  /\ step = 1
  /\ ts = <<>>
  /\ k = 0
  /\ HistInit
  /\ mpc = "gui"
  /\ args = NoArgs
  /\ valve = -1
  /\ ctor = "ok"
  /\ closeCalls = 0
  /\ endCause = "none"
  /\ BenchIdle
  /\ gpc = "ready"
  /\ threadRunning = FALSE
  /\ is_open = [v \in {1, 7} |-> FALSE]
  /\ workers = << [open |-> TRUE, closes |-> 0, usedClosed |-> FALSE,
                   assigned |-> TRUE] >>
  /\ cur = 1
  /\ xdata = <<0>>
  /\ data_id = -1
  /\ saves = <<>>
  /\ seen = 0
  /\ starts = 0
  /\ manualInRun = FALSE
  /\ killedPc = "none"

\* The worker is inside collect_data.
Executing == pc \notin {"idle", "returned", "raised", "killed"}

IsSignal(e) == e[1] \in {"data_ready", "finished"}

\* Indices of the data_ready and finished signals emitted by the worker
\* (lines 317-323) and not yet handled by the GUI thread.
Pending == {i \in (seen + 1)..Len(trace) : IsSignal(trace[i])}

\* An exception leaves a slot: PyQt either prints it and goes on or aborts.
SlotRaised == gpc' \in {"ready", "aborted"}

\* The attributes of a new worker object that are not set by __init__.
FreshWorker ==
  /\ pc' = "idle"
  /\ stop_requested' = FALSE
  /\ step' = 1
  /\ ts' = <<>>
  /\ k' = 0
  /\ trace' = <<>>
  /\ stopPc' = "none"
  /\ stopLen' = 0
  /\ runs' = 0
  /\ cycles' = 0
  /\ phases' = 0
  /\ phaseStart' = 0
  /\ seen' = 0
  /\ killedPc' = "none"

\* The record of a worker whose constructor has started its tasks; assigned
\* tells whether the object became self.worker.
NewSession(assigned) ==
  [open |-> TRUE, closes |-> 0, usedClosed |-> FALSE, assigned |-> assigned]

\* init_worker fails: self.worker.close_tasks() raises on a closed session
\* (closeRaises), or the constructor raises ValueError.
InitWorkerRaises(closeRaises, t, dt) ==
  \/ ~workers[cur].open /\ closeRaises
  \/ dt >= t

\* init_worker, lines 135-160, with the values ct, t, dt read from the spin
\* boxes.  self.worker.close_tasks() (line 146) comes before the constructor
\* (line 148); the constructor starts the tasks of the new object and then
\* checks the configuration (lines 67-84); on an exception self.worker is
\* not assigned.
InitWorker(closeRaises, ct, t, dt) ==
  LET closed == [workers EXCEPT ![cur].closes = @ + 1, ![cur].open = FALSE]
  IN  IF ~workers[cur].open /\ closeRaises
        THEN /\ workers' = closed
             /\ UNCHANGED <<pc, objVars, taskVars, loopVars, histVars, cur,
                            ctor, seen, killedPc>>
        ELSE IF dt >= t
        THEN /\ workers' = Append(closed, NewSession(FALSE))
             /\ task_digital' = "closed"
             /\ task_analog' = "closed"
             /\ ctor' = "ValueError"
             /\ UNCHANGED <<pc, objVars, loopVars, histVars, cur, seen,
                            killedPc>>
        ELSE /\ workers' = Append(closed, NewSession(TRUE))
             /\ cur' = Len(workers) + 1
             /\ Ctor("none", ct, t, dt)
             /\ FreshWorker

\* start_stop with the thread not running, lines 218-240: the header is
\* written (without a file name: error message, return), data_id = 0,
\* init_worker(), thread.start(), toggle_controls().  file tells whether
\* lineOutputFile names a file; ct, t, dt are the values of the spin boxes,
\* which the user can edit while no collection runs.  The signals of the
\* previous worker have been handled before the click.
GuiStart ==
  /\ mpc = "gui"
  /\ gpc = "ready"
  /\ ~threadRunning
  /\ starts < MaxStarts
  /\ Pending = {}
  /\ \E file \in BOOLEAN, ct \in GuiCycleTimes, t \in SpinWindows,
        dt \in SpinDeltas,
        closeRaises \in (IF workers[cur].open THEN {FALSE} ELSE BOOLEAN) :
       IF ~file
         THEN UNCHANGED <<pc, objVars, taskVars, loopVars, histVars, ctor,
                          gpc, threadRunning, workers, cur, data_id, saves,
                          seen, starts, killedPc>>
         ELSE /\ starts' = starts + 1
              /\ saves' = <<>>
              /\ data_id' = 0
              /\ InitWorker(closeRaises, ct, t, dt)
              /\ IF InitWorkerRaises(closeRaises, t, dt)
                   THEN SlotRaised /\ UNCHANGED threadRunning
                   ELSE gpc' = "ready" /\ threadRunning' = TRUE
  /\ UNCHANGED <<valves, mpc, args, valve, closeCalls, endCause, benchVars,
                 is_open, xdata, manualInRun>>

\* The thread's started signal calls worker.collect_data (line 160).
WorkerStart ==
  /\ mpc = "gui"
  /\ threadRunning
  /\ pc = "idle"
  /\ CallCollect
  /\ UNCHANGED <<cliVars, extVars>>

\* start_stop with the thread running, lines 212-216: worker.stop() sets the
\* flag, thread.terminate() asks for the thread to be killed, and
\* thread.wait() blocks the GUI thread.
GuiStop ==
  /\ mpc = "gui"
  /\ gpc = "ready"
  /\ threadRunning
  /\ stop_requested' = TRUE
  /\ gpc' = "stopping"
  /\ UNCHANGED <<pc, cycle_time, cycle_time_remaining, sample_t, sample_dt,
                 valves, taskVars, loopVars, histVars, cliVars, benchVars,
                 threadRunning, is_open, workers, cur, xdata, data_id, saves,
                 seen, starts, manualInRun, killedPc>>

\* The termination takes effect (immediately or later, QThread.terminate)
\* wherever the worker is, thread.wait() returns, and start_stop ends with
\* lines 217 and 240 (button text, toggle_controls).
GuiStopJoin ==
  /\ mpc = "gui"
  /\ gpc = "stopping"
  /\ threadRunning' = FALSE
  /\ killedPc' = pc
  /\ pc' = IF Executing THEN "killed" ELSE pc
  /\ gpc' = "ready"
  /\ UNCHANGED <<objVars, valves, taskVars, loopVars, histVars, cliVars,
                 benchVars, is_open, workers, cur, xdata, data_id, saves,
                 seen, starts, manualInRun>>

\* The elapsed times of the data_ready events of the sampling loop that the
\* finished event at index i of the history ends.
PhaseAt(i) ==
  LET before == {j \in 1..(i - 1) : trace[j][1] = "finished"}
      from == IF before = {} THEN 0
              ELSE CHOOSE j \in before : \A m \in before : m <= j
      dr == SelectSeq(SubSeq(trace, from + 1, i - 1), IsDataReady)
  IN  [n \in 1..Len(dr) |-> dr[n][2]]

\* The GUI thread handles the oldest queued signal of the worker:
\* data_ready -> update_plot (lines 162-181); finished -> toggle_controls,
\* save_data (lines 183-192: one row per element of xdata with data_id,
\* data_id += 1, xdata = ydata = []) and thread.quit.  The field phase of a
\* record of saves is history: the data_ready times of the loop that ended.
GuiDeliver ==
  /\ mpc = "gui"
  /\ gpc = "ready"
  /\ Pending # {}
  /\ LET i == CHOOSE j \in Pending : \A m \in Pending : j <= m
     IN  /\ seen' = i
         /\ IF trace[i][1] = "data_ready"
              THEN /\ xdata' = Append(xdata, trace[i][2])
                   /\ UNCHANGED <<data_id, saves>>
              ELSE /\ saves' = Append(saves, [id |-> data_id, xs |-> xdata,
                                               phase |-> PhaseAt(i)])
                   /\ data_id' = data_id + 1
                   /\ xdata' = <<>>
  /\ UNCHANGED <<pc, objVars, valves, taskVars, loopVars, histVars, cliVars,
                 benchVars, gpc, threadRunning, is_open, workers, cur, starts,
                 manualInRun, killedPc>>

ValveIo(v) == IF v = 1 THEN VALVE_1 ELSE VALVE_7

\* toggle_valve without the test of lines 245-247.
GuiToggleValve_unguarded(v) ==
  /\ mpc = "gui"
  /\ gpc = "ready"
  /\ is_open' = [is_open EXCEPT ![v] = ~@]
  /\ IF is_open[v] THEN CloseValve(ValveIo(v)) ELSE OpenValve(ValveIo(v))
  /\ manualInRun' = (manualInRun \/ Executing)
  /\ UNCHANGED <<pc, objVars, taskVars, loopVars, histVars, cliVars,
                 benchVars, gpc, threadRunning, workers, cur, xdata, data_id,
                 saves, seen, starts, killedPc>>

\* toggle_valve(v), lines 243-266: nothing while the thread runs; otherwise
\* is_open is flipped and then worker.open_valve / worker.close_valve is
\* called (a call on closed tasks raises DaqError).
GuiToggleValve(v) ==
  /\ mpc = "gui"
  /\ gpc = "ready"
  /\ IF threadRunning
       THEN UNCHANGED <<gpc, valves, is_open, workers, manualInRun>>
       ELSE /\ is_open' = [is_open EXCEPT ![v] = ~@]
            /\ IF workers[cur].open
                 THEN /\ IF is_open[v] THEN CloseValve(ValveIo(v))
                                       ELSE OpenValve(ValveIo(v))
                      /\ manualInRun' = (manualInRun \/ Executing)
                      /\ UNCHANGED <<gpc, workers>>
                 ELSE /\ workers' = [workers EXCEPT ![cur].usedClosed = TRUE]
                      /\ SlotRaised
                      /\ UNCHANGED <<valves, manualInRun>>
  /\ UNCHANGED <<pc, objVars, taskVars, loopVars, histVars, cliVars,
                 benchVars, threadRunning, cur, xdata, data_id, saves, seen,
                 starts, killedPc>>

NextGui ==
  \/ GuiStart
  \/ GuiStop
  \/ GuiStopJoin
  \/ GuiDeliver
  \/ \E v \in {1, 7} : GuiToggleValve(v)
  \/ WorkerStart
  \/ Run

SpecGui == InitGui /\ [][NextGui]_vars


\* ----------------------------------------------------------------- C12
\* C12: while a run is active (the worker thread is executing
\* collect_data), no manual open_valve/close_valve write reaches the port:
\* for every interleaving of valve-button clicks, start/stop and worker
\* steps, toggle_valve has written only while no collect_data was executing
\* (before the first start, or after the thread was stopped); the thread is
\* running whenever collect_data executes.
C12_NoManualWriteDuringRun ==
  /\ ~manualInRun
  /\ Executing => threadRunning

\* A valve button opened valve 1 after a run that had reached its sampling
\* loop was stopped.
C12_Witness ==
  /\ killedPc \in SamplingPcs
  /\ ~threadRunning
  /\ is_open[1]
  /\ BitAnd(valves, VALVE_1) = VALVE_1
  /\ ~manualInRun


\* ------------------------------------------- the valve operations alone

\* States of the 8-line port and masks passed to the valve operations.
Registers == 0..255
Masks == 0..255

\* The call sequences applied to a constructed Chromatographer:
\* open_valve(m) then close_valve(m); set_valve(m); open_valve(VALVE_1) then
\* open_valve(VALVE_7).
BenchPrograms ==
  {<< <<"open", m>>, <<"close", m>> >> : m \in Masks}
    \cup {<< <<"set", m>> >> : m \in Masks}
    \cup {<< <<"open", VALVE_1>>, <<"open", VALVE_7>> >>}

InitBench ==
  /\ pc = "idle"
  /\ stop_requested = FALSE
  /\ cycle_time = 1
  /\ cycle_time_remaining = 1
  /\ sample_t = 2
  /\ sample_dt = 1
  /\ valves \in Registers
  /\ task_analog = "started"
  /\ task_digital = "started"
  /\ step = 1
  /\ ts = <<>>
  /\ k = 0
  /\ HistInit
  /\ mpc = "bench"
  /\ args = NoArgs
  /\ valve = -1
  /\ ctor = "ok"
  /\ closeCalls = 0
  /\ endCause = "none"
  /\ reg0 = valves
  /\ todo \in BenchPrograms
  /\ done = <<>>
  /\ GuiIdle

\* The next call of the sequence is made.
BenchStep(op) ==
  /\ mpc = "bench"
  /\ todo # <<>>
  /\ Head(todo)[1] = op
  /\ todo' = Tail(todo)
  /\ done' = Append(done, Head(todo))
  /\ reg0' = reg0

BenchOpen ==
  /\ BenchStep("open")
  /\ OpenValve(Head(todo)[2])
  /\ UNCHANGED <<pc, objVars, taskVars, loopVars, histVars, cliVars, guiVars>>

BenchClose ==
  /\ BenchStep("close")
  /\ CloseValve(Head(todo)[2])
  /\ UNCHANGED <<pc, objVars, taskVars, loopVars, histVars, cliVars, guiVars>>

BenchSet ==
  /\ BenchStep("set")
  /\ SetValve(Head(todo)[2], "manual")
  /\ UNCHANGED <<pc, objVars, taskVars, loopVars, stopPc, stopLen, runs,
                 cycles, phases, phaseStart, cliVars, guiVars>>

NextBench == BenchOpen \/ BenchClose \/ BenchSet

SpecBench == InitBench /\ [][NextBench]_vars

\* Bit i of x (line i of the port).
Bit(x, i) == (x \div (2 ^ i)) % 2

Lines == 0..7

C14_OpenThenCloseClearsTheMask ==
  (Len(done) = 2 /\ done[1][1] = "open" /\ done[2] = <<"close", done[1][2]>>) =>
    /\ valves \in Registers
    /\ \A i \in Lines :
         Bit(valves, i) = IF Bit(done[1][2], i) = 1 THEN 0 ELSE Bit(reg0, i)
    /\ (\A i \in Lines : Bit(reg0, i) = 0 \/ Bit(done[1][2], i) = 0)
         => valves = reg0

\* Valve 4 is open, valves 1 and 7 are opened and closed again.
C14_Witness ==
  /\ reg0 = VALVE_4
  /\ done = << <<"open", 130>>, <<"close", 130>> >>
  /\ valves = VALVE_4

\* ----------------------------------------------------------------- C15
\* C15: for every previous port state and every mask m in 0..255, after
\* set_valve(m) the port holds exactly m: lines that were on and are not in
\* m (valves opened by hand before, for instance) are off.
C15_SetReplacesThePort ==
  (Len(done) = 1 /\ done[1][1] = "set") =>
    /\ valves = done[1][2]
    /\ \A i \in Lines : Bit(valves, i) = Bit(done[1][2], i)

\* Valves 1 and 7 were on; set_valve(VALVE_4) leaves valve 4 alone on.
C15_Witness ==
  /\ reg0 = 130
  /\ done = << <<"set", VALVE_4>> >>
  /\ valves = VALVE_4


\* ----------------------------------------------------------------- C16
\* C16: across any sequence of start/stop clicks and configuration changes
\* in the window, every worker's tasks are open when a valve operation is
\* made on it; close_tasks is invoked on a worker exactly once, when
\* init_worker replaces it (never on the worker that is still self.worker,
\* never on a session already closed); the tasks of two workers are never
\* open at once.
C16_SessionClosedOnceWhenReplaced ==
  /\ \A w \in DOMAIN workers :
       /\ ~workers[w].usedClosed
       /\ workers[w].closes <= 1
       /\ (workers[w].assigned /\ w # cur) =>
            (workers[w].closes = 1 /\ ~workers[w].open)
  /\ workers[cur].closes = 0
  /\ workers[cur].open
  /\ Cardinality({w \in DOMAIN workers : workers[w].open}) <= 1


\* ----------------------------------------------------------------- C17
\* Seconds slept inside the sampling loop since stop() set the flag.
SleptAfterStop ==
  LET idx == {i \in (stopLen + 1)..Len(trace) : IsOp(trace[i], "sleep", "sample")}
  IN  Cardinality(idx) * sample_dt

\* Index in the history of the first reset write after stop() (0: none yet).
ResetAfterStop ==
  LET idx == {i \in (stopLen + 1)..Len(trace) : trace[i] = ResetSet}
  IN  IF idx = {} THEN 0 ELSE CHOOSE i \in idx : \A j \in idx : i <= j

\* Since a stop() that came inside the sampling loop: at most one
\* data_ready, at most sample_delta seconds of sleep, and nothing but one
\* read, one data_ready and one sleep before the reset write.
C17_OneIntervalAtMost ==
  stopPc \in SamplingPcs =>
    /\ AfterStop("data_ready", "sample") <= 1
    /\ SleptAfterStop <= sample_dt
    /\ LET r == IF ResetAfterStop = 0 THEN Len(trace) + 1 ELSE ResetAfterStop
       IN  /\ r - 1 - stopLen <= 3
           /\ \A i \in (stopLen + 1)..(r - 1) :
                /\ trace[i][3] = "sample"
                /\ trace[i][1] \in {"read", "data_ready", "sleep"}

\* C17: for every interleaving of a stop() call with the sampling loop, at
\* most one send_data_ready is emitted after the flag is set, and
\* reset_to_cycle_state is reached after at most one further sample
\* interval (one read and one sleep of sample_delta).
C17_StopBoundsSampling ==
  /\ []C17_OneIntervalAtMost
  /\ (stopPc \in SamplingPcs) ~> (stopPc \in SamplingPcs /\ ResetAfterStop > 0)

\* stop() came after the check of an iteration: that iteration's read,
\* data_ready and sleep followed, then the reset.
C17_Witness ==
  /\ stopPc = "read"
  /\ AfterStop("data_ready", "sample") = 1
  /\ SleptAfterStop = sample_dt
  /\ ResetAfterStop = stopLen + 4


\* ----------------------------------------------------------------- C18
\* C18: when the user stops a running collection in the window, the
\* cancellation is purely cooperative: the worker is never interrupted in
\* the middle of a tick, of priming, of a sample or of a valve write; its
\* thread ends only after collect_data has observed the flag and returned;
\* so once the thread has ended every sampling loop that was entered has
\* been followed by its reset and its finished event.
C18_StopIsCooperative ==
  /\ pc # "killed"
  /\ killedPc \in {"none", "idle", "returned"}
  /\ (~threadRunning /\ gpc = "ready") =>
       /\ NFinished = phases
       /\ runs >= 1 => valves \in {VALVE_4, BitOr(VALVE_4, VALVE_1),
                                   BitOr(VALVE_4, VALVE_7),
                                   BitOr(VALVE_4, BitOr(VALVE_1, VALVE_7))}


\* ----------------------------------------------------------------- C19
\* C19: in the window, each finished event appends to the output file
\* exactly one row per data_ready event of the sampling loop that just
\* ended, in order, with that cycle's dataset id: no row that does not come
\* from a data_ready event of that loop, none missing; the dataset id is 0
\* for the first finished event of a run and one more for each later one.
C19_RowsAreTheSamplesOfTheCycle ==
  \A n \in DOMAIN saves :
    /\ saves[n].xs = saves[n].phase
    /\ saves[n].id = n - 1


\* ----------------------------------------------------------------- C20
\* C20: in every state of a collect_data run without device errors the
\* port holds VALVE_4 (0x10) whenever the run is in its waiting phase and
\* when it has returned, whatever the port held before the run and at
\* whatever point stop() was requested.
C20_ValveFourWhenWaitingOrStopped ==
  (pc \in WaitPcs \cup {"returned"}) => valves = VALVE_4

\* A run stopped during the last prime hold (valves 3 and 5 open) has
\* returned.
C20_Witness ==
  /\ pc = "returned"
  /\ stopPc = "prime_hold"
  /\ trace[stopLen] = Ev("set", 40, "prime")
  /\ valves = VALVE_4


\* ----------------------------------------------------------------- C21
\* Ticks (time_remaining calls of the waiting phase) of the current run.
WaitTicks ==
  Cardinality({i \in DOMAIN trace : IsOp(trace[i], "time_remaining", "wait")})

\* C21: every collect_data call on an instance, a call after a stopped run
\* included, starts with cycle_time_remaining equal to cycle_time and emits
\* cycle_time ticks before its first priming, as a run on a freshly
\* constructed object does.
C21_RestartCountsFromCycleTime ==
  /\ pc = "reset0" => cycle_time_remaining = cycle_time
  /\ (pc = "prime_set" /\ step = 1 /\ cycles = 0) => WaitTicks = cycle_time


\* ----------------------------------------------------------------- C22
\* C22: in the window, after any sequence of valve-button clicks and
\* start/stop clicks (none of whose valve operations failed), whenever no
\* run is active the is_open flag of valve 1 and of valve 7 agrees with
\* the valve's line of the port: the flag is True exactly when the bit
\* (0x02 for valve 1, 0x80 for valve 7) is set.
C22_FlagsAgreeWithPort ==
  (/\ gpc = "ready"
   /\ ~threadRunning
   /\ \A w \in DOMAIN workers : ~workers[w].usedClosed)
    => \A v \in {1, 7} : is_open[v] <=> (BitAnd(valves, ValveIo(v)) = ValveIo(v))

====
